---- MODULE Spec2Model ----
(***************************************************************************)
(* The motor command sequencer of the printer firmware (Motor.cpp) and     *)
(* the part of the configuration store it reads (Settings.cpp).            *)
(*                                                                         *)
(* A call of a Motor method is one step: it reads the settings it needs,   *)
(* builds its list of commands and hands them to the I2C transport one     *)
(* after the other.  The transport's answer to each write is an input of   *)
(* the step.  The record of the last call (what was built, what was        *)
(* written, what the transport answered, what was returned) is the state   *)
(* the properties speak about.                                             *)
(*                                                                         *)
(* Spec takes a call as one step.  StepSpec takes the same calls write by  *)
(* write, with Settings::Set of another thread in between.  ZipSpec is     *)
(* the print archive (PrintDataZip), known from its unit tests only.       *)
(***************************************************************************)
EXTENDS Integers, Sequences, FiniteSets, TLC

VARIABLES
    defaultsMap,    \* Settings::_defaultsMap   key -> default value
    settingsTree,   \* Settings::_settingsTree  key -> value (under the root)
    errorLog,       \* errors handed to the error handler during the last call
    lastOp,         \* the method called last
    program,        \* the commands that call built, in order
    written,        \* the commands that call handed to the transport, in order
    acks,           \* the transport's answer to each of them
    result,         \* what the call returned
    i2cOpen,        \* the motor's connection to the I2C bus is open
    lastArg,        \* the name the last call was given: a setting, a directory
    zipSlices,      \* the numbers N of the images slice_N.png in the print archive
    zipDir,         \* the directory of the path the PrintDataZip object holds
    fsDirs,         \* the directories that exist
    fsFiles,        \* the directories that hold the archive file
    settingsFile,   \* the text of the settings file (_settingsPath)
    sinceSet        \* <<k, v>> right after Set(k, v), <<k, v, saved>> right after
                    \* Set(k, v); Save, kept through Refresh; <<>> otherwise

motorVars == <<program, written, acks, i2cOpen>>

settingsVars == <<defaultsMap, settingsTree>>

zipVars == <<zipSlices, zipDir, fsDirs, fsFiles>>

vars == <<defaultsMap, settingsTree, errorLog, lastOp, program, written, acks, result,
          i2cOpen, lastArg, zipSlices, zipDir, fsDirs, fsFiles, settingsFile, sinceSet>>

---------------------------------------------------------------------------
(* Bounds of the model *)

\* longest list handed to SendCommands by a direct caller
MaxLen == 2

\* most writes the transport refuses during one call
MaxFailures == 1

\* highest number of a slice image in a print archive
MaxSlice == 3

\* most members of the JSON text handed to LoadFromJSONString
MaxMembers == 2

---------------------------------------------------------------------------
(* int: 32 bits, two's complement *)

IntMax == 2147483647

IntMin == -IntMax - 1

\* a - b leaves the range of int
SubOverflows(a, b) ==
    \/ b > 0 /\ a < IntMin + b
    \/ b < 0 /\ a > IntMax + b

\* a - b reduced modulo 2^32 into the range of int, for a - b out of range
\* (computed without leaving the range)
WrapSub(a, b) ==
    IF b < 0
    THEN (((a - IntMax) - 1) - b) + IntMin   \* a - b > IntMax
    ELSE (((a - IntMin) + 1) - b) + IntMax   \* a - b < IntMin

\* The values the expression a - b on int may yield.  Signed overflow is
\* undefined: the build may wrap, saturate or yield anything else.
IntSub(a, b) ==
    IF SubOverflows(a, b)
    THEN {WrapSub(a, b), IntMin, IntMax, 0}
    ELSE {a - b}

---------------------------------------------------------------------------
(* Setting names and values.  A value is a std::string: a sequence of       *)
(* characters.                                                              *)

Digit == ("0" :> 0) @@ ("1" :> 1) @@ ("2" :> 2) @@ ("3" :> 3) @@ ("4" :> 4) @@
         ("5" :> 5) @@ ("6" :> 6) @@ ("7" :> 7) @@ ("8" :> 8) @@ ("9" :> 9)

\* the settings Motor.cpp reads besides LAYER_THICKNESS
InitializeKeys ==
    <<"Z_SCREW_PITCH", "Z_MAX_TRAVEL", "Z_GEAR_RATIO", "Z_MICRO_STEP",
      "Z_START_SPEED", "R_GEAR_RATIO", "R_MICRO_STEP", "R_START_SPEED">>

GoHomeKeys ==
    <<"R_HOMING_ACCEL", "R_HOMING_SPEED", "Z_HOMING_ACCEL", "Z_HOMING_SPEED">>

GoToNextLayerKeys ==
    <<"R_SEPARATING_ACCEL", "R_SEPARATING_DECEL", "R_SEPARATING_SPEED",
      "Z_SEPARATING_ACCEL", "Z_SEPARATING_DECEL", "Z_SEPARATING_SPEED",
      "Z_SEPARATING_HEIGHT", "LAYER_THICKNESS">>

Range(s) == {s[i] : i \in DOMAIN s}

MotorKeys ==
    (Range(InitializeKeys) \cup Range(GoHomeKeys) \cup Range(GoToNextLayerKeys))
        \ {"LAYER_THICKNESS"}

\* the map of default values the constructor of Settings builds
SourceDefaults ==
    [k \in {"JOB_NAME_SETTING", "LAYER_THICKNESS", "BURN_IN_LAYERS",
            "FIRST_EXPOSURE", "BURN_IN_EXPOSURE", "MODEL_EXPOSURE",
            "SEPARATION_RPM", "IS_REGISTERED", "PRINT_DATA_DIR",
            "DOWNLOAD_DIR", "STAGING_DIR"} |->
        CASE k = "JOB_NAME_SETTING" -> <<"s", "l", "i", "c", "e">>
          [] k = "LAYER_THICKNESS"  -> <<"2", "5">>
          [] k = "BURN_IN_LAYERS"   -> <<"1">>
          [] k = "FIRST_EXPOSURE"   -> <<"5", ".", "0">>
          [] k = "BURN_IN_EXPOSURE" -> <<"4", ".", "0">>
          [] k = "MODEL_EXPOSURE"   -> <<"2", ".", "5">>
          [] k = "SEPARATION_RPM"   -> <<"0">>
          [] k = "IS_REGISTERED"    -> <<"f", "a", "l", "s", "e">>
          [] k = "PRINT_DATA_DIR"   ->
                <<"ROOT_DIR", "/", "p", "r", "i", "n", "t", "_", "d", "a", "t", "a">>
          [] k = "DOWNLOAD_DIR"     ->
                <<"ROOT_DIR", "/", "d", "o", "w", "n", "l", "o", "a", "d">>
          [] k = "STAGING_DIR"      ->
                <<"ROOT_DIR", "/", "s", "t", "a", "g", "i", "n", "g">>]

\* Settings.h, which gives the names their strings, is not among the
\* sources.  The motor settings are either names the constructor does not
\* know (the map above, as it stands), or registered with it like the
\* others; in the second case their default is taken to be "0".
MotorDefaults == [k \in MotorKeys |-> <<"0">>]

\* Settings::IsValidSettingName
IsValidSettingName(defaults, key) == key \in DOMAIN defaults

\* boost's translation of a string to int, as _settingsTree.get<int> uses
\* it: an optional sign, then digits only, at least one, and the number in
\* the range of int.  [ok |-> FALSE] stands for ptree_bad_data.
RECURSIVE ParseDigits(_, _, _, _)
ParseDigits(s, i, acc, neg) ==
    IF i > Len(s) THEN [ok |-> TRUE, value |-> acc]
    ELSE IF s[i] \notin DOMAIN Digit THEN [ok |-> FALSE, value |-> 0]
    ELSE LET d == Digit[s[i]] IN
         IF neg
         THEN IF acc > -(IntMax \div 10) \/ (acc = -(IntMax \div 10) /\ d <= 8)
              THEN ParseDigits(s, i + 1, acc * 10 - d, neg)
              ELSE [ok |-> FALSE, value |-> 0]
         ELSE IF acc < IntMax \div 10 \/ (acc = IntMax \div 10 /\ d <= 7)
              THEN ParseDigits(s, i + 1, acc * 10 + d, neg)
              ELSE [ok |-> FALSE, value |-> 0]

ParseInt(s) ==
    IF Len(s) = 0 THEN [ok |-> FALSE, value |-> 0]
    ELSE IF s[1] \in {"-", "+"}
         THEN IF Len(s) = 1 THEN [ok |-> FALSE, value |-> 0]
              ELSE ParseDigits(s, 2, 0, s[1] = "-")
         ELSE ParseDigits(s, 1, 0, FALSE)

\* a faulty variant: -1 is returned for a setting that cannot be read
GetIntMinusOne(tree, defaults, key) ==
    IF IsValidSettingName(defaults, key)
    THEN IF key \in DOMAIN tree /\ ParseInt(tree[key]).ok
         THEN [retVal |-> ParseInt(tree[key]).value, error |-> "None"]
         ELSE [retVal |-> -1, error |-> "CantGetSetting"]
    ELSE [retVal |-> -1, error |-> "UnknownSetting"]

\* Settings::GetInt: the value returned and the error reported, if any
GetInt(tree, defaults, key) ==
    IF IsValidSettingName(defaults, key)
    THEN IF key \in DOMAIN tree /\ ParseInt(tree[key]).ok
         THEN [retVal |-> ParseInt(tree[key]).value, error |-> "None"]
         ELSE [retVal |-> 0, error |-> "CantGetSetting"]
    ELSE [retVal |-> 0, error |-> "UnknownSetting"]

\* the errors a sequence of GetInt calls reports, in order
RECURSIVE GetIntErrors(_, _, _)
GetIntErrors(tree, defaults, keys) ==
    IF keys = <<>> THEN <<>>
    ELSE LET e == GetInt(tree, defaults, Head(keys)).error
             rest == GetIntErrors(tree, defaults, Tail(keys))
         IN  IF e = "None" THEN rest ELSE <<e>> \o rest

\* boost's translation of a string to double: an optional sign, then
\* digits with at most one point among them, at least one digit.  (No
\* value of the model has an exponent.)  The double read is kept as
\* m * 10^-e, without trailing zeros in the fraction.
RECURSIVE ParseDecimal(_, _, _, _, _, _)
ParseDecimal(s, i, m, e, seenPoint, digits) ==
    IF i > Len(s)
    THEN IF digits = 0 THEN [ok |-> FALSE, m |-> 0, e |-> 0]
         ELSE [ok |-> TRUE, m |-> m, e |-> e]
    ELSE IF s[i] = "."
         THEN IF seenPoint THEN [ok |-> FALSE, m |-> 0, e |-> 0]
              ELSE ParseDecimal(s, i + 1, m, e, TRUE, digits)
    ELSE IF s[i] \in DOMAIN Digit
         THEN ParseDecimal(s, i + 1, m * 10 + Digit[s[i]],
                           IF seenPoint THEN e + 1 ELSE e, seenPoint, digits + 1)
    ELSE [ok |-> FALSE, m |-> 0, e |-> 0]

RECURSIVE Reduced(_, _)
Reduced(m, e) ==
    IF e > 0 /\ m % 10 = 0 THEN Reduced(m \div 10, e - 1) ELSE [m |-> m, e |-> e]

ParseDouble(s) ==
    LET signed == Len(s) > 0 /\ s[1] \in {"-", "+"}
        p == ParseDecimal(s, IF signed THEN 2 ELSE 1, 0, 0, FALSE, 0)
        r == Reduced(p.m, p.e)
    IN  IF ~p.ok THEN [ok |-> FALSE, value |-> [m |-> 0, e |-> 0]]
        ELSE [ok |-> TRUE,
              value |-> [m |-> IF signed /\ s[1] = "-" THEN -r.m ELSE r.m, e |-> r.e]]

\* boost's translation of a string to bool: the number 0 or 1, or else the
\* word true or false
ParseBool(s) ==
    IF ParseInt(s).ok /\ ParseInt(s).value \in {0, 1}
    THEN [ok |-> TRUE, value |-> ParseInt(s).value = 1]
    ELSE IF s = <<"t", "r", "u", "e">> THEN [ok |-> TRUE, value |-> TRUE]
    ELSE IF s = <<"f", "a", "l", "s", "e">> THEN [ok |-> TRUE, value |-> FALSE]
    ELSE [ok |-> FALSE, value |-> FALSE]

\* Settings::GetString
GetString(tree, defaults, key) ==
    IF IsValidSettingName(defaults, key)
    THEN IF key \in DOMAIN tree
         THEN [retVal |-> tree[key], error |-> "None"]
         ELSE [retVal |-> <<>>, error |-> "CantGetSetting"]
    ELSE [retVal |-> <<>>, error |-> "UnknownSetting"]

\* Settings::GetDouble
GetDouble(tree, defaults, key) ==
    IF IsValidSettingName(defaults, key)
    THEN IF key \in DOMAIN tree /\ ParseDouble(tree[key]).ok
         THEN [retVal |-> ParseDouble(tree[key]).value, error |-> "None"]
         ELSE [retVal |-> [m |-> 0, e |-> 0], error |-> "CantGetSetting"]
    ELSE [retVal |-> [m |-> 0, e |-> 0], error |-> "UnknownSetting"]

\* a faulty variant: a setting that cannot be read counts as true
GetBoolDefaultsTrue(tree, defaults, key) ==
    IF IsValidSettingName(defaults, key)
    THEN IF key \in DOMAIN tree /\ ParseBool(tree[key]).ok
         THEN [retVal |-> ParseBool(tree[key]).value, error |-> "None"]
         ELSE [retVal |-> TRUE, error |-> "CantGetSetting"]
    ELSE [retVal |-> TRUE, error |-> "UnknownSetting"]

\* Settings::GetBool
GetBool(tree, defaults, key) ==
    IF IsValidSettingName(defaults, key)
    THEN IF key \in DOMAIN tree /\ ParseBool(tree[key]).ok
         THEN [retVal |-> ParseBool(tree[key]).value, error |-> "None"]
         ELSE [retVal |-> FALSE, error |-> "CantGetSetting"]
    ELSE [retVal |-> FALSE, error |-> "UnknownSetting"]

---------------------------------------------------------------------------
(* JSON text, as far as the settings go: whether it parses, whether it has *)
(* the root "Settings", and the members under the root, <<name, value>>,   *)
(* in the order of the text.                                               *)

JsonText(members) == [parses |-> TRUE, hasRoot |-> TRUE, members |-> members]

\* text that is no JSON: also a file that is not there, or cut short
NotJson == [parses |-> FALSE, hasRoot |-> FALSE, members |-> <<>>]

\* JSON without the root
NoRootJson == [parses |-> TRUE, hasRoot |-> FALSE, members |-> <<>>]

RECURSIVE MembersOf(_, _)
MembersOf(tree, keys) ==
    IF keys = {} THEN <<>>
    ELSE LET k == CHOOSE x \in keys : TRUE
         IN  << <<k, tree[k]>> >> \o MembersOf(tree, keys \ {k})

\* write_json: one member for each value of the tree
WriteJson(tree) ==
    IF DOMAIN tree = {} THEN NoRootJson ELSE JsonText(MembersOf(tree, DOMAIN tree))

\* the tree read_json builds from parsed text; of members of one name, get
\* finds the first
TreeOf(text) ==
    IF ~text.hasRoot THEN <<>>
    ELSE LET m == text.members IN
         [k \in {m[i][1] : i \in 1 .. Len(m)} |->
             m[CHOOSE i \in 1 .. Len(m) :
                   m[i][1] = k /\ \A j \in 1 .. i - 1 : m[j][1] # k][2]]

\* read_json: [ok |-> FALSE] stands for json_parser_error
ReadJson(text) == [ok |-> text.parses, tree |-> IF text.parses THEN TreeOf(text) ELSE <<>>]

\* _settingsTree.put(ROOT_DOT + key, value)
Put(tree, key, value) ==
    [k \in DOMAIN tree \cup {key} |-> IF k = key THEN value ELSE tree[k]]

\* the file after write_json(filename, tree): written; or not opened and
\* as it was; or opened and the writing broken off
WriteOutcomes == {"written", "cannot open", "write error"}

FileAfterWrite(file, tree, outcome) ==
    CASE outcome = "written" -> WriteJson(tree)
      [] outcome = "cannot open" -> file
      [] outcome = "write error" -> NotJson

---------------------------------------------------------------------------
(* Commands *)

\* the fixed start offset of the tray, in degrees
TRAY_START_ANGLE == 60

\* a command without a value
MotorCommand(reg, cmd) ==
    [reg |-> reg, cmd |-> cmd, hasValue |-> FALSE, value |-> 0]

\* a command with a value
MotorValueCommand(reg, cmd, v) ==
    [reg |-> reg, cmd |-> cmd, hasValue |-> TRUE, value |-> v]

---------------------------------------------------------------------------
(* The transport.  ok[i] tells whether the i-th write of a call is          *)
(* accepted; n is the number of commands the call has to send.              *)

FailSets(n) == {F \in SUBSET (1 .. n) : Cardinality(F) <= MaxFailures}

Outcomes(n) == {[i \in 1 .. n |-> i \notin F] : F \in FailSets(n)}

---------------------------------------------------------------------------
(* Motor::SendCommands: the loop, from command i on.  r is the record of    *)
(* what was written and answered so far.                                    *)

\* a faulty variant: the loop goes on after a refused write and reports at the end
RECURSIVE SendCommandsLoopGoesOn(_, _, _, _)
SendCommandsLoopGoesOn(commands, ok, i, r) ==
    IF i > Len(commands)
    THEN [written |-> r.written, acks |-> r.acks,
          result |-> \A j \in 1 .. Len(r.acks) : r.acks[j]]
    ELSE SendCommandsLoopGoesOn(commands, ok, i + 1,
                                [written |-> Append(r.written, commands[i]),
                                 acks |-> Append(r.acks, ok[i])])

RECURSIVE SendCommandsLoop(_, _, _, _)
SendCommandsLoop(commands, ok, i, r) ==
    IF i > Len(commands)
    THEN [written |-> r.written, acks |-> r.acks, result |-> TRUE]
    ELSE LET w == Append(r.written, commands[i])
             a == Append(r.acks, ok[i])
         IN  IF ~ok[i]
             THEN [written |-> w, acks |-> a, result |-> FALSE]
             ELSE SendCommandsLoop(commands, ok, i + 1, [written |-> w, acks |-> a])

SendCommandsResult(commands, ok) ==
    SendCommandsLoop(commands, ok, 1, [written |-> <<>>, acks |-> <<>>])

\* a faulty variant: both commands are sent and the answer to the second is
\* returned
SendBothReportsLast(first, second, ok) ==
    [written |-> <<first, second>>, acks |-> <<ok[1], ok[2]>>, result |-> ok[2]]

\* first.Send(this) && second.Send(this), as EnableMotors and DisableMotors
\* evaluate it
SendBoth(first, second, ok) ==
    IF ~ok[1]
    THEN [written |-> <<first>>, acks |-> <<FALSE>>, result |-> FALSE]
    ELSE [written |-> <<first, second>>, acks |-> <<TRUE, ok[2]>>, result |-> ok[2]]

\* command.Send(this) of a single command
SendOne(command, ok) ==
    [written |-> <<command>>, acks |-> <<ok[1]>>, result |-> ok[1]]

---------------------------------------------------------------------------
(* The lists of commands the methods of Motor build *)

\* SETTINGS.GetInt(key)
Setting(tree, defaults, key) == GetInt(tree, defaults, key).retVal

\* a faulty variant: the motors are enabled before the axes are set up
InitializeProgramEnableFirst(tree, defaults) ==
    << MotorCommand("MC_ROT_ACTION_REG", "MC_ENABLE"),
       MotorCommand("MC_Z_ACTION_REG", "MC_ENABLE"),
       MotorValueCommand("MC_Z_SETTINGS_REG", "MC_Z_SCREW_PITCH",
                         Setting(tree, defaults, "Z_SCREW_PITCH")),
       MotorValueCommand("MC_Z_SETTINGS_REG", "MC_Z_MAX_TRAVEL",
                         Setting(tree, defaults, "Z_MAX_TRAVEL")),
       MotorValueCommand("MC_Z_SETTINGS_REG", "MC_GEAR_RATIO",
                         Setting(tree, defaults, "Z_GEAR_RATIO")),
       MotorValueCommand("MC_Z_SETTINGS_REG", "MC_MICROSTEPPING",
                         Setting(tree, defaults, "Z_MICRO_STEP")),
       MotorValueCommand("MC_Z_SETTINGS_REG", "MC_START_SPEED",
                         Setting(tree, defaults, "Z_START_SPEED")),
       MotorValueCommand("MC_ROT_SETTINGS_REG", "MC_GEAR_RATIO",
                         Setting(tree, defaults, "R_GEAR_RATIO")),
       MotorValueCommand("MC_ROT_SETTINGS_REG", "MC_MICROSTEPPING",
                         Setting(tree, defaults, "R_MICRO_STEP")),
       MotorValueCommand("MC_ROT_SETTINGS_REG", "MC_START_SPEED",
                         Setting(tree, defaults, "R_START_SPEED")),
       MotorCommand("MC_GENERAL_REG", "MC_INTERRUPT") >>

InitializeProgram(tree, defaults) ==
    << MotorValueCommand("MC_Z_SETTINGS_REG", "MC_Z_SCREW_PITCH",
                         Setting(tree, defaults, "Z_SCREW_PITCH")),
       MotorValueCommand("MC_Z_SETTINGS_REG", "MC_Z_MAX_TRAVEL",
                         Setting(tree, defaults, "Z_MAX_TRAVEL")),
       MotorValueCommand("MC_Z_SETTINGS_REG", "MC_GEAR_RATIO",
                         Setting(tree, defaults, "Z_GEAR_RATIO")),
       MotorValueCommand("MC_Z_SETTINGS_REG", "MC_MICROSTEPPING",
                         Setting(tree, defaults, "Z_MICRO_STEP")),
       MotorValueCommand("MC_Z_SETTINGS_REG", "MC_START_SPEED",
                         Setting(tree, defaults, "Z_START_SPEED")),
       MotorValueCommand("MC_ROT_SETTINGS_REG", "MC_GEAR_RATIO",
                         Setting(tree, defaults, "R_GEAR_RATIO")),
       MotorValueCommand("MC_ROT_SETTINGS_REG", "MC_MICROSTEPPING",
                         Setting(tree, defaults, "R_MICRO_STEP")),
       MotorValueCommand("MC_ROT_SETTINGS_REG", "MC_START_SPEED",
                         Setting(tree, defaults, "R_START_SPEED")),
       MotorCommand("MC_ROT_ACTION_REG", "MC_ENABLE"),
       MotorCommand("MC_Z_ACTION_REG", "MC_ENABLE"),
       MotorCommand("MC_GENERAL_REG", "MC_INTERRUPT") >>

\* a faulty variant: the two rotation moves change places
GoHomeProgramOffsetFirst(tree, defaults) ==
    << MotorValueCommand("MC_ROT_SETTINGS_REG", "MC_ACCELERATION",
                         Setting(tree, defaults, "R_HOMING_ACCEL")),
       MotorValueCommand("MC_ROT_SETTINGS_REG", "MC_SPEED",
                         Setting(tree, defaults, "R_HOMING_SPEED")),
       MotorValueCommand("MC_ROT_ACTION_REG", "MC_MOVE", TRAY_START_ANGLE),
       MotorValueCommand("MC_ROT_ACTION_REG", "MC_MOVE", 0),
       MotorValueCommand("MC_Z_SETTINGS_REG", "MC_ACCELERATION",
                         Setting(tree, defaults, "Z_HOMING_ACCEL")),
       MotorValueCommand("MC_Z_SETTINGS_REG", "MC_SPEED",
                         Setting(tree, defaults, "Z_HOMING_SPEED")),
       MotorValueCommand("MC_Z_ACTION_REG", "MC_MOVE", 0),
       MotorCommand("MC_GENERAL_REG", "MC_INTERRUPT") >>

\* a faulty variant: the Z axis is moved before its profile is set
GoHomeProgramMovesZFirst(tree, defaults) ==
    << MotorValueCommand("MC_ROT_SETTINGS_REG", "MC_ACCELERATION",
                         Setting(tree, defaults, "R_HOMING_ACCEL")),
       MotorValueCommand("MC_ROT_SETTINGS_REG", "MC_SPEED",
                         Setting(tree, defaults, "R_HOMING_SPEED")),
       MotorValueCommand("MC_ROT_ACTION_REG", "MC_MOVE", 0),
       MotorValueCommand("MC_ROT_ACTION_REG", "MC_MOVE", TRAY_START_ANGLE),
       MotorValueCommand("MC_Z_ACTION_REG", "MC_MOVE", 0),
       MotorValueCommand("MC_Z_SETTINGS_REG", "MC_ACCELERATION",
                         Setting(tree, defaults, "Z_HOMING_ACCEL")),
       MotorValueCommand("MC_Z_SETTINGS_REG", "MC_SPEED",
                         Setting(tree, defaults, "Z_HOMING_SPEED")),
       MotorCommand("MC_GENERAL_REG", "MC_INTERRUPT") >>

GoHomeProgram(tree, defaults) ==
    << MotorValueCommand("MC_ROT_SETTINGS_REG", "MC_ACCELERATION",
                         Setting(tree, defaults, "R_HOMING_ACCEL")),
       MotorValueCommand("MC_ROT_SETTINGS_REG", "MC_SPEED",
                         Setting(tree, defaults, "R_HOMING_SPEED")),
       MotorValueCommand("MC_ROT_ACTION_REG", "MC_MOVE", 0),
       MotorValueCommand("MC_ROT_ACTION_REG", "MC_MOVE", TRAY_START_ANGLE),
       MotorValueCommand("MC_Z_SETTINGS_REG", "MC_ACCELERATION",
                         Setting(tree, defaults, "Z_HOMING_ACCEL")),
       MotorValueCommand("MC_Z_SETTINGS_REG", "MC_SPEED",
                         Setting(tree, defaults, "Z_HOMING_SPEED")),
       MotorValueCommand("MC_Z_ACTION_REG", "MC_MOVE", 0),
       MotorCommand("MC_GENERAL_REG", "MC_INTERRUPT") >>

\* for the faulty variants below: the commands of GoToNextLayer with the
\* last four in the order tail gives, a permutation of 1 .. 4 over (lift,
\* return, lower, interrupt request)
NextLayerCommands(tree, defaults, lower, tail) ==
    LET deltaZ == Setting(tree, defaults, "Z_SEPARATING_HEIGHT")
        last4 == << MotorValueCommand("MC_Z_SETTINGS_REG", "MC_MOVE", deltaZ),
                    MotorValueCommand("MC_ROT_SETTINGS_REG", "MC_MOVE", TRAY_START_ANGLE),
                    MotorValueCommand("MC_Z_SETTINGS_REG", "MC_MOVE", lower),
                    MotorCommand("MC_GENERAL_REG", "MC_INTERRUPT") >>
    IN
    << MotorValueCommand("MC_ROT_SETTINGS_REG", "MC_ACCELERATION",
                         Setting(tree, defaults, "R_SEPARATING_ACCEL")),
       MotorValueCommand("MC_ROT_SETTINGS_REG", "MC_DECELERATION",
                         Setting(tree, defaults, "R_SEPARATING_DECEL")),
       MotorValueCommand("MC_ROT_SETTINGS_REG", "MC_SPEED",
                         Setting(tree, defaults, "R_SEPARATING_SPEED")),
       MotorValueCommand("MC_ROT_SETTINGS_REG", "MC_MOVE", -1 * TRAY_START_ANGLE),
       MotorValueCommand("MC_Z_SETTINGS_REG", "MC_ACCELERATION",
                         Setting(tree, defaults, "Z_SEPARATING_ACCEL")),
       MotorValueCommand("MC_Z_SETTINGS_REG", "MC_DECELERATION",
                         Setting(tree, defaults, "Z_SEPARATING_DECEL")),
       MotorValueCommand("MC_Z_SETTINGS_REG", "MC_SPEED",
                         Setting(tree, defaults, "Z_SEPARATING_SPEED")),
       last4[tail[1]], last4[tail[2]], last4[tail[3]], last4[tail[4]] >>

\* a faulty variant: the tray returns before the platform is lifted
GoToNextLayerProgramReturnsEarly(tree, defaults, lower) ==
    NextLayerCommands(tree, defaults, lower, <<2, 1, 3, 4>>)

\* a faulty variant: the interrupt is requested before the platform is lowered
GoToNextLayerProgramInterruptEarly(tree, defaults, lower) ==
    NextLayerCommands(tree, defaults, lower, <<1, 2, 4, 3>>)

\* lower is what SETTINGS.GetInt(LAYER_THICKNESS) - deltaZ yielded
GoToNextLayerProgram(tree, defaults, lower) ==
    LET deltaZ == Setting(tree, defaults, "Z_SEPARATING_HEIGHT") IN
    << MotorValueCommand("MC_ROT_SETTINGS_REG", "MC_ACCELERATION",
                         Setting(tree, defaults, "R_SEPARATING_ACCEL")),
       MotorValueCommand("MC_ROT_SETTINGS_REG", "MC_DECELERATION",
                         Setting(tree, defaults, "R_SEPARATING_DECEL")),
       MotorValueCommand("MC_ROT_SETTINGS_REG", "MC_SPEED",
                         Setting(tree, defaults, "R_SEPARATING_SPEED")),
       MotorValueCommand("MC_ROT_SETTINGS_REG", "MC_MOVE", -1 * TRAY_START_ANGLE),
       MotorValueCommand("MC_Z_SETTINGS_REG", "MC_ACCELERATION",
                         Setting(tree, defaults, "Z_SEPARATING_ACCEL")),
       MotorValueCommand("MC_Z_SETTINGS_REG", "MC_DECELERATION",
                         Setting(tree, defaults, "Z_SEPARATING_DECEL")),
       MotorValueCommand("MC_Z_SETTINGS_REG", "MC_SPEED",
                         Setting(tree, defaults, "Z_SEPARATING_SPEED")),
       MotorValueCommand("MC_Z_SETTINGS_REG", "MC_MOVE", deltaZ),
       MotorValueCommand("MC_ROT_SETTINGS_REG", "MC_MOVE", TRAY_START_ANGLE),
       MotorValueCommand("MC_Z_SETTINGS_REG", "MC_MOVE", lower),
       MotorCommand("MC_GENERAL_REG", "MC_INTERRUPT") >>

\* a faulty variant: the platform is lowered by the whole layer thickness
LowerByThickness(tree, defaults) == {Setting(tree, defaults, "LAYER_THICKNESS")}

\* the values SETTINGS.GetInt(LAYER_THICKNESS) - deltaZ may yield
LowerBy(tree, defaults) ==
    IntSub(Setting(tree, defaults, "LAYER_THICKNESS"),
           Setting(tree, defaults, "Z_SEPARATING_HEIGHT"))

EnableProgram ==
    << MotorCommand("MC_ROT_ACTION_REG", "MC_ENABLE"),
       MotorCommand("MC_Z_ACTION_REG", "MC_ENABLE") >>

DisableProgram ==
    << MotorCommand("MC_ROT_ACTION_REG", "MC_DISABLE"),
       MotorCommand("MC_Z_ACTION_REG", "MC_DISABLE") >>

ResetCommand == MotorCommand("MC_GENERAL_REG", "MC_RESET")

\* a faulty variant: Pause sends the code of Resume
PauseCommandResumes == MotorCommand("MC_GENERAL_REG", "MC_RESUME")

PauseCommand == MotorCommand("MC_GENERAL_REG", "MC_PAUSE")

ResumeCommand == MotorCommand("MC_GENERAL_REG", "MC_RESUME")

ClearCommand == MotorCommand("MC_GENERAL_REG", "MC_CLEAR")

---------------------------------------------------------------------------
(* Inputs of the model *)

\* the names Set is called with: two the motor reads, one nobody registers
SetKeys == {"LAYER_THICKNESS", "Z_SEPARATING_HEIGHT", "NOT_A_SETTING"}

\* the values Set is called with
SetValues ==
    { <<"1", "0">>, <<"3", "0">>, <<"-", "1">>,
      <<"2", "1", "4", "7", "4", "8", "3", "6", "4", "7">>,
      <<"1", "0", "m", "m">> }

\* the commands a direct caller of SendCommands picks from
CommandPool ==
    { MotorCommand("MC_GENERAL_REG", "MC_INTERRUPT"),
      MotorValueCommand("MC_Z_ACTION_REG", "MC_MOVE", 0) }

\* the names the getters are called with
GetKeys ==
    {"LAYER_THICKNESS", "JOB_NAME_SETTING", "FIRST_EXPOSURE", "IS_REGISTERED",
     "NOT_A_SETTING"}

CommandLists == UNION {[1 .. n -> CommandPool] : n \in 0 .. MaxLen}

---------------------------------------------------------------------------
(* The state after construction, and the calls *)

\* Settings::RestoreAll, as the constructor calls it when there is no
\* settings file yet: the tree holds the defaults
RestoredTree(defaults) == [k \in DOMAIN defaults |-> defaults[k]]

\* what the constructor reads when there is a settings file: here a file
\* that holds the defaults but has no entry for the layer thickness
StoredTree(defaults) ==
    [k \in DOMAIN defaults \ {"LAYER_THICKNESS"} |-> defaults[k]]

Init ==
    /\ defaultsMap \in {SourceDefaults, MotorDefaults @@ SourceDefaults}
    /\ settingsTree \in {RestoredTree(defaultsMap), StoredTree(defaultsMap)}
    /\ errorLog = <<>>
    /\ lastOp = "Motor"
    /\ program = <<>>
    /\ written = <<>>
    /\ acks = <<>>
    /\ result = <<>>
    /\ i2cOpen = TRUE
    /\ lastArg = ""
    /\ zipSlices = {}
    /\ zipDir = ""
    /\ fsDirs = {}
    /\ fsFiles = {}
    /\ settingsFile = WriteJson(settingsTree)
    /\ sinceSet = <<>>

\* what a method of Motor leaves behind: what it built, what the sending
\* did, what the settings reported meanwhile
MotorRecord(op, commands, sent, errors) ==
    \E s \in {sent} :
        /\ lastOp' = op
        /\ program' = commands
        /\ written' = s.written
        /\ acks' = s.acks
        /\ result' = <<s.result>>
        /\ errorLog' = errors
        /\ lastArg' = ""
        /\ sinceSet' = <<>>
        /\ UNCHANGED <<defaultsMap, settingsTree, settingsFile>>
        /\ UNCHANGED zipVars

\* a call of a method of Motor, on a motor that has not been destroyed
MotorCall(op, commands, sent, errors) ==
    /\ i2cOpen
    /\ MotorRecord(op, commands, sent, errors)
    /\ UNCHANGED i2cOpen

SendCommands ==
    \E commands \in CommandLists : \E ok \in Outcomes(Len(commands)) :
        MotorCall("SendCommands", commands, SendCommandsResult(commands, ok), <<>>)

Reset ==
    \E ok \in Outcomes(1) :
        MotorCall("Reset", <<ResetCommand>>, SendOne(ResetCommand, ok), <<>>)

EnableMotors ==
    \E ok \in Outcomes(2) :
        MotorCall("EnableMotors", EnableProgram,
                  SendBoth(EnableProgram[1], EnableProgram[2], ok), <<>>)

DisableMotors ==
    \E ok \in Outcomes(2) :
        MotorCall("DisableMotors", DisableProgram,
                  SendBoth(DisableProgram[1], DisableProgram[2], ok), <<>>)

Pause ==
    \E ok \in Outcomes(1) :
        MotorCall("Pause", <<PauseCommand>>, SendOne(PauseCommand, ok), <<>>)

Resume ==
    \E ok \in Outcomes(1) :
        MotorCall("Resume", <<ResumeCommand>>, SendOne(ResumeCommand, ok), <<>>)

\* a faulty variant: a queue already cleared by the call before is not
\* cleared again
ClearCommandQueueOnce ==
    IF lastOp = "ClearCommandQueue"
    THEN MotorCall("ClearCommandQueue", <<ClearCommand>>,
                   [written |-> <<>>, acks |-> <<>>, result |-> TRUE], <<>>)
    ELSE \E ok \in Outcomes(1) :
             MotorCall("ClearCommandQueue", <<ClearCommand>>, SendOne(ClearCommand, ok), <<>>)

ClearCommandQueue ==
    \E ok \in Outcomes(1) :
        MotorCall("ClearCommandQueue", <<ClearCommand>>, SendOne(ClearCommand, ok), <<>>)

Initialize ==
    \E commands \in {InitializeProgram(settingsTree, defaultsMap)},
       errors \in {GetIntErrors(settingsTree, defaultsMap, InitializeKeys)} :
    \E ok \in Outcomes(Len(commands)) :
        MotorCall("Initialize", commands, SendCommandsResult(commands, ok), errors)

GoHome ==
    \E commands \in {GoHomeProgram(settingsTree, defaultsMap)},
       errors \in {GetIntErrors(settingsTree, defaultsMap, GoHomeKeys)} :
    \E ok \in Outcomes(Len(commands)) :
        MotorCall("GoHome", commands, SendCommandsResult(commands, ok), errors)

GoToNextLayer ==
    \E lower \in LowerBy(settingsTree, defaultsMap) :
    \E commands \in {GoToNextLayerProgram(settingsTree, defaultsMap, lower)},
       errors \in {GetIntErrors(settingsTree, defaultsMap, GoToNextLayerKeys)} :
    \E ok \in Outcomes(Len(commands)) :
        MotorCall("GoToNextLayer", commands, SendCommandsResult(commands, ok), errors)

\* Settings::Set
SetTo(key, value) ==
    /\ IF IsValidSettingName(defaultsMap, key)
       THEN /\ settingsTree' = [k \in DOMAIN settingsTree \cup {key} |->
                                    IF k = key THEN value ELSE settingsTree[k]]
            /\ errorLog' = <<>>
            /\ sinceSet' = <<key, value>>
       ELSE /\ settingsTree' = settingsTree
            /\ errorLog' = <<"UnknownSetting">>
            /\ sinceSet' = <<>>
    /\ lastOp' = "Set"
    /\ program' = <<>>
    /\ written' = <<>>
    /\ acks' = <<>>
    /\ result' = <<>>
    /\ lastArg' = key
    /\ UNCHANGED <<defaultsMap, i2cOpen, settingsFile>>
    /\ UNCHANGED zipVars

Set == \E key \in SetKeys, value \in SetValues : SetTo(key, value)

\* a call of a getter of Settings: what it returned and what it reported
GetterCall(op, key, got) ==
    \E g \in {got} :
        /\ lastOp' = op
        /\ lastArg' = key
        /\ result' = <<g.retVal>>
        /\ errorLog' = IF g.error = "None" THEN <<>> ELSE <<g.error>>
        /\ program' = <<>>
        /\ written' = <<>>
        /\ acks' = <<>>
        /\ sinceSet' = <<>>
        /\ UNCHANGED <<defaultsMap, settingsTree, i2cOpen, settingsFile>>
        /\ UNCHANGED zipVars

GetIntCall ==
    \E key \in GetKeys : GetterCall("GetInt", key, GetInt(settingsTree, defaultsMap, key))

GetStringCall ==
    \E key \in GetKeys : GetterCall("GetString", key, GetString(settingsTree, defaultsMap, key))

GetDoubleCall ==
    \E key \in GetKeys : GetterCall("GetDouble", key, GetDouble(settingsTree, defaultsMap, key))

GetBoolCall ==
    \E key \in GetKeys : GetterCall("GetBool", key, GetBool(settingsTree, defaultsMap, key))

\* the base class closes the connection when the motor is destroyed
CloseConnection == i2cOpen' = FALSE

\* Motor::~Motor: disables the motors; then the base class's destructor runs.
\* The destructor returns nothing: result keeps what DisableMotors returned.
Destructor ==
    /\ i2cOpen
    /\ \E ok \in Outcomes(2) :
           MotorRecord("~Motor", DisableProgram,
                       SendBoth(DisableProgram[1], DisableProgram[2], ok), <<>>)
    /\ CloseConnection

Next ==
    \/ SendCommands
    \/ Reset
    \/ EnableMotors
    \/ DisableMotors
    \/ Pause
    \/ Resume
    \/ ClearCommandQueue
    \/ Initialize
    \/ GoHome
    \/ GoToNextLayer
    \/ Set
    \/ Destructor
    \/ GetIntCall
    \/ GetStringCall
    \/ GetDoubleCall
    \/ GetBoolCall

Spec == Init /\ [][Next]_vars

---------------------------------------------------------------------------
(* The same methods of Motor, write by write.  A call is entered (the list *)
(* is built from the settings as they are then), after which each step is  *)
(* one write of the transport, until the call returns; result = <<>>       *)
(* while it has not.  Meanwhile another thread may change a setting.       *)

MotorMethods ==
    {"Reset", "EnableMotors", "DisableMotors", "Pause", "Resume", "ClearCommandQueue",
     "Initialize", "GoHome", "GoToNextLayer"}

\* a call is under way
Sending == lastOp \in MotorMethods /\ result = <<>>

\* the list of commands a method builds
Built(op, tree, defaults, lower) ==
    CASE op = "Reset" -> <<ResetCommand>>
      [] op = "EnableMotors" -> EnableProgram
      [] op = "DisableMotors" -> DisableProgram
      [] op = "Pause" -> <<PauseCommand>>
      [] op = "Resume" -> <<ResumeCommand>>
      [] op = "ClearCommandQueue" -> <<ClearCommand>>
      [] op = "Initialize" -> InitializeProgram(tree, defaults)
      [] op = "GoHome" -> GoHomeProgram(tree, defaults)
      [] op = "GoToNextLayer" -> GoToNextLayerProgram(tree, defaults, lower)

\* the settings a method reads, in order
KeysRead(op) ==
    CASE op = "Initialize" -> InitializeKeys
      [] op = "GoHome" -> GoHomeKeys
      [] op = "GoToNextLayer" -> GoToNextLayerKeys
      [] OTHER -> <<>>

\* a method of Motor is called: it reads its settings and builds its list
Enter ==
    /\ i2cOpen
    /\ ~Sending
    /\ \E op \in MotorMethods :
       \E lower \in (IF op = "GoToNextLayer" THEN LowerBy(settingsTree, defaultsMap) ELSE {0}) :
           /\ lastOp' = op
           /\ program' = Built(op, settingsTree, defaultsMap, lower)
           /\ errorLog' = GetIntErrors(settingsTree, defaultsMap, KeysRead(op))
    /\ written' = <<>>
    /\ acks' = <<>>
    /\ result' = <<>>
    /\ lastArg' = ""
    /\ UNCHANGED <<defaultsMap, settingsTree, i2cOpen, settingsFile, sinceSet>>
    /\ UNCHANGED zipVars

\* a faulty variant: the list is sent from its end
NextCommandFromEnd(commands, sent) == commands[Len(commands) - Len(sent)]

\* the command the call writes next: commands[i] of the loop, the right
\* operand of && after the left
NextCommand(commands, sent) == commands[Len(sent) + 1]

\* a faulty variant: after its last write the call waits for the motor
\* controller's interrupt
ReturnedAfterWaits(commands, answers) ==
    IF ~answers[Len(answers)] THEN <<FALSE>> ELSE <<>>

\* what the call returns after a write, if it returns: false after a
\* refused write, true after the last one accepted
ReturnedAfter(commands, answers) ==
    IF ~answers[Len(answers)] THEN <<FALSE>>
    ELSE IF Len(answers) = Len(commands) THEN <<TRUE>>
    ELSE <<>>

\* one write: command.Send(this)
Send ==
    /\ Sending
    /\ Len(written) < Len(program)
    /\ \E ack \in BOOLEAN :
           /\ written' = Append(written, NextCommand(program, written))
           /\ acks' = Append(acks, ack)
           /\ result' = ReturnedAfter(program, Append(acks, ack))
    /\ UNCHANGED <<defaultsMap, settingsTree, errorLog, lastOp, program, i2cOpen, lastArg>>
    /\ UNCHANGED <<settingsFile, sinceSet>>
    /\ UNCHANGED zipVars

\* a faulty variant: the commands of a call under way follow the setting
SetMeanwhileReachesCall ==
    \E key \in SetKeys \cap DOMAIN defaultsMap, value \in SetValues :
    \E tree \in {[k \in DOMAIN settingsTree \cup {key} |->
                      IF k = key THEN value ELSE settingsTree[k]]} :
        /\ settingsTree' = tree
        /\ program' = IF Sending /\ lastOp = "GoToNextLayer"
                      THEN GoToNextLayerProgram(tree, defaultsMap, program[10].value)
                      ELSE program
        /\ UNCHANGED <<defaultsMap, errorLog, lastOp, written, acks, result,
                       i2cOpen, lastArg, settingsFile, sinceSet>>
        /\ UNCHANGED zipVars

\* Settings::Set of a known name by another thread, whatever the motor's
\* thread is doing
SetMeanwhile ==
    \E key \in SetKeys \cap DOMAIN defaultsMap, value \in SetValues :
        /\ settingsTree' = [k \in DOMAIN settingsTree \cup {key} |->
                                IF k = key THEN value ELSE settingsTree[k]]
        /\ UNCHANGED <<defaultsMap, errorLog, lastOp, program, written, acks, result,
                       i2cOpen, lastArg, settingsFile, sinceSet>>
        /\ UNCHANGED zipVars

StepNext ==
    \/ Enter
    \/ Send
    \/ SetMeanwhile

StepSpec == Init /\ [][StepNext]_vars

\* every write of the transport returns
FairStepSpec == StepSpec /\ WF_vars(Send)

---------------------------------------------------------------------------
(* The settings and their file: the methods of Settings that load, save    *)
(* and restore.  A call is one step; whether the file can be written is an *)
(* input of the step.                                                      *)

\* the members of the text LoadFromJSONString is given: two settings, one
\* of them with two values, and a name that is no setting
JsonMembers ==
    { <<"LAYER_THICKNESS", <<"3", "0">>>>, <<"LAYER_THICKNESS", <<"1", "0">>>>,
      <<"BURN_IN_LAYERS", <<"3", "0">>>>, <<"NOT_A_SETTING", <<"3", "0">>>> }

JsonStrings ==
    {NotJson, NoRootJson} \cup
    {JsonText(m) : m \in UNION {[1 .. n -> JsonMembers] : n \in 0 .. MaxMembers}}

\* the files Load is pointed at: none, one without the root, one with a
\* name that is no setting
OtherFiles ==
    {NotJson, NoRootJson,
     JsonText(<< <<"NOT_A_SETTING", <<"1">>>>, <<"LAYER_THICKNESS", <<"3", "0">>>> >>)}

\* the names and the values Set is called with here
SettingKeys == {"LAYER_THICKNESS", "NOT_A_SETTING"}

SettingValues == { <<"1", "0">>, <<"3", "0">> }

\* the names Restore is called with
RestoreKeys == {"LAYER_THICKNESS", "BURN_IN_LAYERS", "NOT_A_SETTING"}

\* Settings::Settings: the tree and the file it leaves.  Either there was
\* a file to read (here the one without the layer thickness), or there was
\* none and RestoreAll wrote one, or could not
Constructed(defaults) ==
    { <<TreeOf(WriteJson(StoredTree(defaults))), WriteJson(StoredTree(defaults))>> } \cup
    { <<RestoredTree(defaults), FileAfterWrite(NotJson, RestoredTree(defaults), o)>> :
          o \in WriteOutcomes }

SettingsInit ==
    /\ defaultsMap = SourceDefaults
    /\ \E c \in Constructed(defaultsMap) : settingsTree = c[1] /\ settingsFile = c[2]
    /\ errorLog = <<>>
    /\ lastOp = "Settings"
    /\ program = <<>>
    /\ written = <<>>
    /\ acks = <<>>
    /\ result = <<>>
    /\ i2cOpen = TRUE
    /\ lastArg = ""
    /\ zipSlices = {}
    /\ zipDir = ""
    /\ fsDirs = {}
    /\ fsFiles = {}
    /\ sinceSet = <<>>

\* what a method of Settings leaves behind
SettingsCall(op, arg, tree, file, errors, returned) ==
    /\ lastOp' = op
    /\ lastArg' = arg
    /\ settingsTree' = tree
    /\ settingsFile' = file
    /\ errorLog' = errors
    /\ result' = returned
    /\ UNCHANGED <<defaultsMap, motorVars>>
    /\ UNCHANGED zipVars

\* Settings::Set
SetSetting == \E key \in SettingKeys, value \in SettingValues : SetTo(key, value)

\* Settings::Save(filename) on the settings file: the file after it and
\* the errors it reports
SaveResult(tree, file, outcome) ==
    [file |-> FileAfterWrite(file, tree, outcome),
     errors |-> IF outcome = "written" THEN <<>> ELSE <<"CantSaveSettings">>]

\* Settings::Save()
Save ==
    \E outcome \in WriteOutcomes :
    \E saved \in {SaveResult(settingsTree, settingsFile, outcome)} :
        /\ SettingsCall("Save", "", settingsTree, saved.file, saved.errors, <<>>)
        /\ sinceSet' = IF lastOp = "Set" /\ Len(sinceSet) = 2
                       THEN <<sinceSet[1], sinceSet[2], outcome>>
                       ELSE <<>>

\* Settings::Load(filename): the tree after it and the errors it reports
LoadResult(tree, text) ==
    IF ReadJson(text).ok
    THEN [tree |-> ReadJson(text).tree, errors |-> <<>>]
    ELSE [tree |-> tree, errors |-> <<"CantLoadSettings">>]

\* Settings::Load of some other file
Load ==
    \E text \in OtherFiles :
    \E loaded \in {LoadResult(settingsTree, text)} :
        /\ SettingsCall("Load", "", loaded.tree, settingsFile, loaded.errors, <<>>)
        /\ sinceSet' = <<>>

\* a Refresh that does not read the file
RefreshKeepsMemory ==
    /\ SettingsCall("Refresh", "", settingsTree, settingsFile, <<>>, <<>>)
    /\ UNCHANGED sinceSet

\* Settings::Refresh
Refresh ==
    \E loaded \in {LoadResult(settingsTree, settingsFile)} :
        /\ SettingsCall("Refresh", "", loaded.tree, settingsFile, loaded.errors, <<>>)
        /\ UNCHANGED sinceSet

\* a loop that sets every member, whatever its name
RECURSIVE SetEveryMember(_, _, _, _)
SetEveryMember(tree, defaults, members, i) ==
    IF i > Len(members) THEN tree
    ELSE SetEveryMember(Put(tree, members[i][1], members[i][2]),
                        defaults, members, i + 1)

\* the loop of LoadFromJSONString over the members, from member i on
RECURSIVE SetMembers(_, _, _, _)
SetMembers(tree, defaults, members, i) ==
    IF i > Len(members) THEN tree
    ELSE SetMembers(IF IsValidSettingName(defaults, members[i][1])
                    THEN Put(tree, members[i][1], members[i][2])
                    ELSE tree,
                    defaults, members, i + 1)

\* Settings::LoadFromJSONString
LoadFromJSONString ==
    \E str \in JsonStrings :
        /\ IF ReadJson(str).ok /\ str.hasRoot
           THEN \E outcome \in WriteOutcomes :
                \E tree \in {SetMembers(settingsTree, defaultsMap, str.members, 1)} :
                \E saved \in {SaveResult(tree, settingsFile, outcome)} :
                    SettingsCall("LoadFromJSONString", str, tree, saved.file,
                                 saved.errors, <<TRUE>>)
           ELSE SettingsCall("LoadFromJSONString", str, settingsTree, settingsFile,
                             <<"CantReadSettingsString">>, <<FALSE>>)
        /\ sinceSet' = <<>>

\* a RestoreAll that does not clear the tree before it puts the defaults
RestoreAllWithoutClear ==
    \E outcome \in WriteOutcomes :
    \E tree \in {[k \in DOMAIN settingsTree \cup DOMAIN defaultsMap |->
                      IF k \in DOMAIN defaultsMap THEN defaultsMap[k]
                      ELSE settingsTree[k]]} :
        /\ SettingsCall("RestoreAll", "", tree,
                        FileAfterWrite(settingsFile, tree, outcome),
                        IF outcome = "written" THEN <<>> ELSE <<"CantRestoreSettings">>,
                        <<>>)
        /\ sinceSet' = <<>>

\* Settings::RestoreAll
RestoreAll ==
    \E outcome \in WriteOutcomes :
    \E tree \in {RestoredTree(defaultsMap)} :
        /\ SettingsCall("RestoreAll", "", tree,
                        FileAfterWrite(settingsFile, tree, outcome),
                        IF outcome = "written" THEN <<>> ELSE <<"CantRestoreSettings">>,
                        <<>>)
        /\ sinceSet' = <<>>

\* a Restore that puts every default back, not only the one asked for
RestoreEveryKey ==
    \E key \in RestoreKeys :
        /\ IF IsValidSettingName(defaultsMap, key)
           THEN \E outcome \in WriteOutcomes :
                \E tree \in {RestoredTree(defaultsMap)} :
                \E saved \in {SaveResult(tree, settingsFile, outcome)} :
                    SettingsCall("Restore", key, tree, saved.file, saved.errors, <<>>)
           ELSE SettingsCall("Restore", key, settingsTree, settingsFile,
                             <<"NoDefaultSetting">>, <<>>)
        /\ sinceSet' = <<>>

\* Settings::Restore
Restore ==
    \E key \in RestoreKeys :
        /\ IF IsValidSettingName(defaultsMap, key)
           THEN \E outcome \in WriteOutcomes :
                \E tree \in {Put(settingsTree, key, defaultsMap[key])} :
                \E saved \in {SaveResult(tree, settingsFile, outcome)} :
                    SettingsCall("Restore", key, tree, saved.file, saved.errors, <<>>)
           ELSE SettingsCall("Restore", key, settingsTree, settingsFile,
                             <<"NoDefaultSetting">>, <<>>)
        /\ sinceSet' = <<>>

SettingsNext ==
    \/ SetSetting
    \/ Save
    \/ Load
    \/ Refresh
    \/ LoadFromJSONString
    \/ RestoreAll
    \/ Restore

SettingsSpec == SettingsInit /\ [][SettingsNext]_vars

---------------------------------------------------------------------------
(* The print archive (PrintDataZip).  Its code is not among the sources;   *)
(* what it does is taken from its unit tests.                              *)

\* the directories of the tests: the one the archive is copied to, a
\* destination, and a name no directory has
DirNames == {"testDir", "destination", "bogus"}

\* PrintDataZip::GetLayerCount: the number of slice images in the archive
LayerCount(slices) == Cardinality(slices)

\* a faulty variant: an archive without a single image passes
ConsecutiveFromOneOrEmpty(slices) ==
    \A n \in 1 .. LayerCount(slices) : n \in slices

\* PrintDataZip::Validate: there is an image, and for each n from 1 to the
\* number of images there is the image slice_n
ConsecutiveFromOne(slices) ==
    /\ LayerCount(slices) >= 1
    /\ \A n \in 1 .. LayerCount(slices) : n \in slices

\* a faulty variant: the archive is copied, the old file stays
RenamedCopies(files, from, to) == files \cup {to}

\* rename(from/print.zip, to/print.zip)
Renamed(files, from, to) == (files \ {from}) \cup {to}

\* the state after PrintDataZip("name", testDir + "/print.zip")
ZipInit ==
    /\ defaultsMap = SourceDefaults
    /\ settingsTree = RestoredTree(defaultsMap)
    /\ errorLog = <<>>
    /\ lastOp = "PrintDataZip"
    /\ program = <<>>
    /\ written = <<>>
    /\ acks = <<>>
    /\ result = <<>>
    /\ i2cOpen = TRUE
    /\ lastArg = ""
    /\ zipSlices \in SUBSET (0 .. MaxSlice)
    /\ zipDir = "testDir"
    /\ fsDirs \in {D \in SUBSET DirNames : "testDir" \in D /\ "bogus" \notin D}
    /\ fsFiles = {"testDir"}
    /\ settingsFile = WriteJson(settingsTree)
    /\ sinceSet = <<>>

\* a call of a method of PrintDataZip
ZipCall(op, arg, returned) ==
    /\ lastOp' = op
    /\ lastArg' = arg
    /\ result' = <<returned>>
    /\ UNCHANGED <<errorLog, motorVars, settingsVars, settingsFile, sinceSet>>

Validate ==
    /\ ZipCall("Validate", "", ConsecutiveFromOne(zipSlices))
    /\ UNCHANGED zipVars

GetLayerCount ==
    /\ ZipCall("GetLayerCount", "", LayerCount(zipSlices))
    /\ UNCHANGED zipVars

\* PrintDataZip::Move: the file is renamed into the destination directory
\* if there is one, and the object then holds the new path
Move ==
    \E destination \in DirNames :
        /\ IF destination \in fsDirs
           THEN /\ fsFiles' = Renamed(fsFiles, zipDir, destination)
                /\ zipDir' = destination
                /\ ZipCall("Move", destination, TRUE)
           ELSE /\ UNCHANGED <<fsFiles, zipDir>>
                /\ ZipCall("Move", destination, FALSE)
        /\ UNCHANGED <<zipSlices, fsDirs>>

ZipNext ==
    \/ Validate
    \/ GetLayerCount
    \/ Move

ZipSpec == ZipInit /\ [][ZipNext]_vars

---------------------------------------------------------------------------
(* Vocabulary of the properties *)

\* the methods that hand a list to SendCommands
ProgramOps == {"Initialize", "GoHome", "GoToNextLayer"}

SendCommandsOps == ProgramOps \cup {"SendCommands"}

\* the axis a register belongs to
Axis(c) ==
    CASE c.reg \in {"MC_ROT_SETTINGS_REG", "MC_ROT_ACTION_REG"} -> "rotation"
      [] c.reg \in {"MC_Z_SETTINGS_REG", "MC_Z_ACTION_REG"} -> "Z"
      [] OTHER -> "general"

\* the action codes that set a parameter of an axis
ParameterCodes ==
    {"MC_Z_SCREW_PITCH", "MC_Z_MAX_TRAVEL", "MC_GEAR_RATIO", "MC_MICROSTEPPING",
     "MC_START_SPEED", "MC_ACCELERATION", "MC_DECELERATION", "MC_SPEED"}

IsSettingCommand(c) == c.cmd \in ParameterCodes

IsActionCommand(c) == c.cmd \in {"MC_MOVE", "MC_ENABLE"}

IsInterruptRequest(c) ==
    c.reg = "MC_GENERAL_REG" /\ c.cmd = "MC_INTERRUPT" /\ ~c.hasValue

\* written is the first commands of the program, in the program's order
WrittenIsPrefix ==
    /\ Len(written) <= Len(program)
    /\ \A i \in 1 .. Len(written) : written[i] = program[i]

AllAccepted == \A i \in 1 .. Len(acks) : acks[i]

\* what a command says, without the register's kind
Told(c) == [axis |-> Axis(c), cmd |-> c.cmd, hasValue |-> c.hasValue, value |-> c.value]

Tell(axis, cmd, v) == [axis |-> axis, cmd |-> cmd, hasValue |-> TRUE, value |-> v]

TellPlain(axis, cmd) == [axis |-> axis, cmd |-> cmd, hasValue |-> FALSE, value |-> 0]

\* the configured value of a setting, as the motor gets it
Configured(key) == Setting(settingsTree, defaultsMap, key)

---------------------------------------------------------------------------
(* C1 *)

\* C1: SendCommands is fail-fast.  The commands handed to the transport are
\* the first k of the list, in order; every one before the k-th was
\* accepted; if fewer than all were handed over, the k-th was refused; and
\* the result is true exactly if all N were handed over and accepted (so
\* false as soon as command k is the first refused, with k+1..N never sent).
C1_FailFast ==
    lastOp \in SendCommandsOps =>
        LET k == Len(written) IN
        /\ WrittenIsPrefix
        /\ Len(acks) = k
        /\ \A i \in 1 .. k - 1 : acks[i]
        /\ k < Len(program) => (k >= 1 /\ ~acks[k])
        /\ result = << k = Len(program) /\ AllAccepted >>

\* a list of two whose first command is refused: one command sent, false
C1_Witness ==
    /\ lastOp = "SendCommands"
    /\ Len(program) = 2
    /\ Len(written) = 1
    /\ acks = <<FALSE>>
    /\ result = <<FALSE>>

---------------------------------------------------------------------------
(* C2 *)

\* C2: EnableMotors and DisableMotors attempt both the command of the
\* rotation axis and that of the Z axis whatever the transport answers: the
\* Z command is written exactly once, also when the rotation command was
\* refused, and the result is the conjunction of the two answers.
C2_BothAxesAttempted ==
    lastOp \in {"EnableMotors", "DisableMotors"} =>
        /\ Len(written) = 2
        /\ written[1] = program[1]
        /\ written[2] = program[2]
        /\ Axis(written[2]) = "Z"
        /\ result = << acks[1] /\ acks[2] >>

---------------------------------------------------------------------------
(* C3 *)

\* the register and action code of the commands of Initialize, in the
\* documented order, and whether each carries a value
InitializeOrder ==
    << <<"MC_Z_SETTINGS_REG", "MC_Z_SCREW_PITCH", TRUE>>,
       <<"MC_Z_SETTINGS_REG", "MC_Z_MAX_TRAVEL", TRUE>>,
       <<"MC_Z_SETTINGS_REG", "MC_GEAR_RATIO", TRUE>>,
       <<"MC_Z_SETTINGS_REG", "MC_MICROSTEPPING", TRUE>>,
       <<"MC_Z_SETTINGS_REG", "MC_START_SPEED", TRUE>>,
       <<"MC_ROT_SETTINGS_REG", "MC_GEAR_RATIO", TRUE>>,
       <<"MC_ROT_SETTINGS_REG", "MC_MICROSTEPPING", TRUE>>,
       <<"MC_ROT_SETTINGS_REG", "MC_START_SPEED", TRUE>>,
       <<"MC_ROT_ACTION_REG", "MC_ENABLE", FALSE>>,
       <<"MC_Z_ACTION_REG", "MC_ENABLE", FALSE>>,
       <<"MC_GENERAL_REG", "MC_INTERRUPT", FALSE>> >>

\* C3: Initialize sends exactly 11 commands in the documented order when
\* every write is accepted; the commands it does send are always the first
\* of that order; and if the k-th write is refused, k commands were sent,
\* none of k+1..11, and the call returns false.
C3_InitializeOrder ==
    lastOp = "Initialize" =>
        /\ Len(written) <= 11
        /\ \A i \in 1 .. Len(written) :
               <<written[i].reg, written[i].cmd, written[i].hasValue>> = InitializeOrder[i]
        /\ AllAccepted => (Len(written) = 11 /\ result = <<TRUE>>)
        /\ \A k \in 1 .. Len(acks) :
               ~acks[k] => (Len(written) = k /\ result = <<FALSE>>)

\* all eleven commands accepted
C3_Witness ==
    /\ lastOp = "Initialize"
    /\ Len(written) = 11
    /\ AllAccepted
    /\ result = <<TRUE>>

---------------------------------------------------------------------------
(* C10 *)

\* the action code of the single command of Reset, Pause, Resume and
\* ClearCommandQueue
GeneralCode ==
    [op \in {"Reset", "Pause", "Resume", "ClearCommandQueue"} |->
        CASE op = "Reset" -> "MC_RESET"
          [] op = "Pause" -> "MC_PAUSE"
          [] op = "Resume" -> "MC_RESUME"
          [] op = "ClearCommandQueue" -> "MC_CLEAR"]

\* C10: Reset, Pause, Resume and ClearCommandQueue each send exactly one
\* command, to the general register, with their own action code and no
\* value, and return what the transport answered to that one write.
C10_SingleGeneralCommand ==
    lastOp \in DOMAIN GeneralCode =>
        /\ Len(written) = 1
        /\ written[1].reg = "MC_GENERAL_REG"
        /\ written[1].cmd = GeneralCode[lastOp]
        /\ ~written[1].hasValue
        /\ Len(acks) = 1
        /\ result = <<acks[1]>>

\* a Pause the transport refused
C10_Witness ==
    /\ lastOp = "Pause"
    /\ written = <<MotorCommand("MC_GENERAL_REG", "MC_PAUSE")>>
    /\ acks = <<FALSE>>
    /\ result = <<FALSE>>

---------------------------------------------------------------------------
(* C4 *)

\* the moves of the Z axis among the commands GoToNextLayer built
IsZMove(c) == Axis(c) = "Z" /\ c.cmd = "MC_MOVE"

ZMoves == SelectSeq(program, IsZMove)

\* the two Z moves are H and L - H
ZMovesAre(L, H) ==
    /\ Len(ZMoves) = 2
    /\ ZMoves[1].hasValue /\ ZMoves[1].value = H
    /\ ~SubOverflows(L, H)
    /\ ZMoves[2].hasValue /\ ZMoves[2].value = L - H
    /\ ZMoves[1].value + ZMoves[2].value = L

---------------------------------------------------------------------------
(* C5 *)

\* C5: every command whose action code is "move" goes to an action
\* register (of the rotation or of the Z axis), never to a settings
\* register or to the general register; so for every command GoHome and
\* GoToNextLayer build.
C5_MoveOnlyOnActionRegister ==
    \A i \in 1 .. Len(program) :
        program[i].cmd = "MC_MOVE" =>
            program[i].reg \in {"MC_ROT_ACTION_REG", "MC_Z_ACTION_REG"}

---------------------------------------------------------------------------
(* C6 *)

\* what GoToNextLayer is to transmit, in order, for a layer thickness L and
\* a separating height H
NextLayerOrder(L, H) ==
    << Tell("rotation", "MC_ACCELERATION", Configured("R_SEPARATING_ACCEL")),
       Tell("rotation", "MC_DECELERATION", Configured("R_SEPARATING_DECEL")),
       Tell("rotation", "MC_SPEED", Configured("R_SEPARATING_SPEED")),
       Tell("rotation", "MC_MOVE", -TRAY_START_ANGLE),
       Tell("Z", "MC_ACCELERATION", Configured("Z_SEPARATING_ACCEL")),
       Tell("Z", "MC_DECELERATION", Configured("Z_SEPARATING_DECEL")),
       Tell("Z", "MC_SPEED", Configured("Z_SEPARATING_SPEED")),
       Tell("Z", "MC_MOVE", H),
       Tell("rotation", "MC_MOVE", TRAY_START_ANGLE),
       Tell("Z", "MC_MOVE", L - H),
       TellPlain("general", "MC_INTERRUPT") >>

\* the commands written are the first of that order, and all of it when
\* every write was accepted
TransmitsNextLayerOrder(L, H) ==
    /\ ~SubOverflows(L, H)
    /\ Len(written) <= 11
    /\ \A i \in 1 .. Len(written) : Told(written[i]) = NextLayerOrder(L, H)[i]
    /\ AllAccepted => Len(written) = 11

---------------------------------------------------------------------------
(* C7 *)

\* what GoHome is to transmit, in order
HomeOrder ==
    << Tell("rotation", "MC_ACCELERATION", Configured("R_HOMING_ACCEL")),
       Tell("rotation", "MC_SPEED", Configured("R_HOMING_SPEED")),
       Tell("rotation", "MC_MOVE", 0),
       Tell("rotation", "MC_MOVE", TRAY_START_ANGLE),
       Tell("Z", "MC_ACCELERATION", Configured("Z_HOMING_ACCEL")),
       Tell("Z", "MC_SPEED", Configured("Z_HOMING_SPEED")),
       Tell("Z", "MC_MOVE", 0),
       TellPlain("general", "MC_INTERRUPT") >>

\* C7: GoHome transmits, in this order: rotation acceleration and speed;
\* rotation move to 0; rotation move by the start offset; Z acceleration
\* and speed; Z move to 0; interrupt request.  What it writes is always the
\* first commands of that order, and all eight when every write was accepted.
C7_HomeOrder ==
    lastOp = "GoHome" =>
        /\ Len(written) <= 8
        /\ \A i \in 1 .. Len(written) : Told(written[i]) = HomeOrder[i]
        /\ AllAccepted => Len(written) = 8

\* every write accepted: the rotation moves are the 3rd and 4th command,
\* the only Z move the 7th
C7_Witness ==
    /\ lastOp = "GoHome"
    /\ result = <<TRUE>>
    /\ Len(written) = 8
    /\ written[3].value = 0 /\ written[4].value = 60
    /\ IsZMove(written[7])

---------------------------------------------------------------------------
(* C8 *)

\* C8: in what Initialize, GoHome and GoToNextLayer transmit, every
\* settings command of an axis that the program holds has been transmitted
\* before the first action command (move or enable) of that axis: whenever
\* an action command is among the commands written, each settings command
\* of its axis in the program stands before it and was written too.
C8_SettingsBeforeAction ==
    lastOp \in ProgramOps =>
        /\ WrittenIsPrefix
        /\ \A j \in 1 .. Len(written) :
               IsActionCommand(written[j]) =>
                   \A i \in 1 .. Len(program) :
                       (IsSettingCommand(program[i]) /\ Axis(program[i]) = Axis(written[j]))
                           => (i < j /\ written[i] = program[i])

\* GoToNextLayer stopped at its second rotation move: actions of both axes
\* are out, after three settings commands of each axis
C8_Witness ==
    /\ lastOp = "GoToNextLayer"
    /\ Len(written) = 9
    /\ result = <<FALSE>>
    /\ IsActionCommand(written[4]) /\ Axis(written[4]) = "rotation"
    /\ IsActionCommand(written[8]) /\ Axis(written[8]) = "Z"
    /\ Cardinality({i \in 1 .. 9 : IsSettingCommand(written[i])}) = 6

---------------------------------------------------------------------------
(* C9 *)

\* C9: the programs of Initialize, GoHome and GoToNextLayer hold exactly
\* one request for the completion interrupt, as their last command; it is
\* written only after every other command of the program was written and
\* accepted, hence never when an earlier command was refused.
C9_InterruptLast ==
    lastOp \in ProgramOps =>
        /\ Cardinality({i \in 1 .. Len(program) : IsInterruptRequest(program[i])}) = 1
        /\ IsInterruptRequest(program[Len(program)])
        /\ \A j \in 1 .. Len(written) :
               IsInterruptRequest(written[j]) =>
                   /\ j = Len(program)
                   /\ \A i \in 1 .. j - 1 : written[i] = program[i] /\ acks[i]
        /\ (\E i \in 1 .. Len(program) - 1 : i <= Len(acks) /\ ~acks[i]) =>
               \A j \in 1 .. Len(written) : ~IsInterruptRequest(written[j])

\* GoHome whose interrupt request was written, after seven accepted commands
C9_Witness ==
    /\ lastOp = "GoHome"
    /\ Len(written) = 8
    /\ IsInterruptRequest(written[8])
    /\ \A i \in 1 .. 7 : acks[i]

---------------------------------------------------------------------------
(* C11 *)

\* the methods of Motor that build their commands themselves
BuilderOps ==
    ProgramOps \cup {"Reset", "EnableMotors", "DisableMotors", "Pause", "Resume",
                     "ClearCommandQueue"}

\* C11: a method of Motor that builds its commands returns true exactly if
\* every command it built was written and accepted, so false when any write
\* was refused; and a refused write is the last write of the call: what was
\* written is the first commands of the list, each once, with nothing sent
\* again and nothing else sent after the refusal.
C11_TrueIffAllAccepted ==
    lastOp \in BuilderOps =>
        /\ Len(acks) = Len(written)
        /\ WrittenIsPrefix
        /\ result = << Len(written) = Len(program) /\ AllAccepted >>
        /\ \A i \in 1 .. Len(acks) : ~acks[i] => (i = Len(written) /\ result = <<FALSE>>)

\* EnableMotors whose second write is refused: false, and nothing after it
C11_Witness ==
    /\ lastOp = "EnableMotors"
    /\ acks = <<TRUE, FALSE>>
    /\ written = program
    /\ result = <<FALSE>>

---------------------------------------------------------------------------
(* C12 *)

\* what Initialize is to transmit, in order, with the configured values
InitializeTold ==
    << Tell("Z", "MC_Z_SCREW_PITCH", Configured("Z_SCREW_PITCH")),
       Tell("Z", "MC_Z_MAX_TRAVEL", Configured("Z_MAX_TRAVEL")),
       Tell("Z", "MC_GEAR_RATIO", Configured("Z_GEAR_RATIO")),
       Tell("Z", "MC_MICROSTEPPING", Configured("Z_MICRO_STEP")),
       Tell("Z", "MC_START_SPEED", Configured("Z_START_SPEED")),
       Tell("rotation", "MC_GEAR_RATIO", Configured("R_GEAR_RATIO")),
       Tell("rotation", "MC_MICROSTEPPING", Configured("R_MICRO_STEP")),
       Tell("rotation", "MC_START_SPEED", Configured("R_START_SPEED")),
       TellPlain("rotation", "MC_ENABLE"),
       TellPlain("Z", "MC_ENABLE"),
       TellPlain("general", "MC_INTERRUPT") >>

\* the difference of the configured layer thickness and separating height
\* is not an int value: what the second Z move of GoToNextLayer carries is
\* then left to the build (it is no state of the motor)
LoweringUndefined ==
    SubOverflows(Configured("LAYER_THICKNESS"), Configured("Z_SEPARATING_HEIGHT"))

\* what a method is to transmit under the present configuration
ToTransmit(op) ==
    CASE op \in DOMAIN GeneralCode -> << TellPlain("general", GeneralCode[op]) >>
      [] op = "EnableMotors" ->
            << TellPlain("rotation", "MC_ENABLE"), TellPlain("Z", "MC_ENABLE") >>
      [] op = "DisableMotors" ->
            << TellPlain("rotation", "MC_DISABLE"), TellPlain("Z", "MC_DISABLE") >>
      [] op = "Initialize" -> InitializeTold
      [] op = "GoHome" -> HomeOrder
      [] op = "GoToNextLayer" ->
            IF LoweringUndefined
            THEN NextLayerOrder(Configured("Z_SEPARATING_HEIGHT"),
                                Configured("Z_SEPARATING_HEIGHT"))
            ELSE NextLayerOrder(Configured("LAYER_THICKNESS"),
                                Configured("Z_SEPARATING_HEIGHT"))

\* the positions of that list whose value the configuration does not fix
LeftOpen(op) == IF op = "GoToNextLayer" /\ LoweringUndefined THEN {10} ELSE {}

\* what was written is what the method transmits under the present
\* configuration, up to and including the first refused write
TransmittedAfresh ==
    LET e == ToTransmit(lastOp)
        k == Len(written)
    IN  /\ k <= Len(e)
        /\ Len(acks) = k
        /\ \A i \in 1 .. k : i \notin LeftOpen(lastOp) => Told(written[i]) = e[i]
        /\ \A i \in 1 .. k - 1 : acks[i]
        /\ k < Len(e) => (k >= 1 /\ ~acks[k])

\* C12: the methods of Motor carry no state from one call to the next.
\* After any calls (successful or failed), the commands the last call
\* transmitted are fixed by the method, the configuration at the call and
\* the transport's answers during the call; and ClearCommandQueue called
\* right after ClearCommandQueue again sends exactly one clear command on
\* the general register.
C12_NoStateBetweenCalls ==
    /\ [](lastOp \in BuilderOps => TransmittedAfresh)
    /\ [][ (lastOp = "ClearCommandQueue" /\ lastOp' = "ClearCommandQueue") =>
               (/\ Len(written') = 1
                /\ Told(written'[1]) = TellPlain("general", "MC_CLEAR")) ]_vars

\* ClearCommandQueue has sent its one command and the transport took it
C12_Witness ==
    /\ lastOp = "ClearCommandQueue"
    /\ written = <<ClearCommand>>
    /\ result = <<TRUE>>

---------------------------------------------------------------------------
(* C14 *)

\* the lookup of a setting fails: the name is unknown, or there is no value
\* under it, or the value is not an int
LookupFails(key) ==
    \/ key \notin DOMAIN defaultsMap
    \/ key \notin DOMAIN settingsTree
    \/ ~ParseInt(settingsTree[key]).ok

\* the commands that carry the value of one setting: position -> setting
ValueSlots(op) ==
    CASE op = "Initialize" -> [i \in 1 .. 8 |-> InitializeKeys[i]]
      [] op = "GoHome" ->
            (1 :> "R_HOMING_ACCEL") @@ (2 :> "R_HOMING_SPEED") @@
            (5 :> "Z_HOMING_ACCEL") @@ (6 :> "Z_HOMING_SPEED")
      [] op = "GoToNextLayer" ->
            (1 :> "R_SEPARATING_ACCEL") @@ (2 :> "R_SEPARATING_DECEL") @@
            (3 :> "R_SEPARATING_SPEED") @@ (5 :> "Z_SEPARATING_ACCEL") @@
            (6 :> "Z_SEPARATING_DECEL") @@ (7 :> "Z_SEPARATING_SPEED") @@
            (8 :> "Z_SEPARATING_HEIGHT")

\* axis, action code and presence of a value of each command a method is
\* to transmit, in order
OrderOnly(op) ==
    [i \in DOMAIN ToTransmit(op) |->
        <<ToTransmit(op)[i].axis, ToTransmit(op)[i].cmd, ToTransmit(op)[i].hasValue>>]

\* C14: a failed lookup of a setting does not stop Initialize, GoHome or
\* GoToNextLayer.  The method returns; the list it built has the full
\* number of commands (11, 8, 11) in the usual order; a command that
\* carries a setting whose lookup failed carries 0 (and the second Z move
\* carries thickness - height with 0 for whichever lookup failed); and the
\* list is written like any other: all of it when every write is accepted.
C14_FailedLookupYieldsZero ==
    lastOp \in ProgramOps =>
        /\ result # <<>>
        /\ Len(program) = Len(OrderOnly(lastOp))
        /\ Len(program) = (IF lastOp = "GoHome" THEN 8 ELSE 11)
        /\ \A i \in 1 .. Len(program) :
               <<Axis(program[i]), program[i].cmd, program[i].hasValue>> = OrderOnly(lastOp)[i]
        /\ \A i \in DOMAIN ValueSlots(lastOp) :
               LookupFails(ValueSlots(lastOp)[i]) => program[i].value = 0
        /\ (lastOp = "GoToNextLayer" /\ LookupFails("LAYER_THICKNESS")) =>
               program[10].value = -program[8].value
        /\ (lastOp = "GoToNextLayer" /\ LookupFails("Z_SEPARATING_HEIGHT")
               /\ ~LookupFails("LAYER_THICKNESS")) =>
               program[10].value = ParseInt(settingsTree["LAYER_THICKNESS"]).value
        /\ WrittenIsPrefix
        /\ AllAccepted => written = program

\* GoToNextLayer with a layer thickness that is not a number, and a
\* separating height that is: the whole list is written, the second Z move
\* lowers by 0 - height
C14_Witness ==
    /\ lastOp = "GoToNextLayer"
    /\ errorLog = <<"CantGetSetting">>
    /\ "LAYER_THICKNESS" \in DOMAIN settingsTree
    /\ Len(written) = 11
    /\ program[8].value = 30
    /\ program[10].value = -30

---------------------------------------------------------------------------
(* C15 *)

GetterOps == {"GetInt", "GetString", "GetDouble", "GetBool"}

\* the value a getter starts from
TypeDefault ==
    [op \in GetterOps |->
        CASE op = "GetInt" -> 0
          [] op = "GetString" -> <<>>
          [] op = "GetDouble" -> [m |-> 0, e |-> 0]
          [] op = "GetBool" -> FALSE]

\* the stored text reads as a value of the getter's type
ReadsAs(op, text) ==
    CASE op = "GetInt" -> ParseInt(text).ok
      [] op = "GetString" -> TRUE
      [] op = "GetDouble" -> ParseDouble(text).ok
      [] op = "GetBool" -> ParseBool(text).ok

\* the getter cannot deliver: the name is no setting name, or nothing is
\* stored under it, or what is stored is of the wrong type
CannotGet(op, key) ==
    \/ key \notin DOMAIN defaultsMap
    \/ key \notin DOMAIN settingsTree
    \/ ~ReadsAs(op, settingsTree[key])

\* C15: a getter of Settings called with a name that is no setting name, or
\* under which nothing is stored, or whose stored value is of the wrong
\* type, returns the default of its type (0, "", 0.0, false) to its caller
\* and reports exactly one error: UnknownSetting for the first case,
\* CantGetSetting for the others; otherwise it reports none.  No call of a
\* getter changes the stored settings.
C15_GetterFallsBack ==
    /\ [](lastOp \in GetterOps =>
             IF CannotGet(lastOp, lastArg)
             THEN /\ result = << TypeDefault[lastOp] >>
                  /\ errorLog = << IF lastArg \in DOMAIN defaultsMap
                                   THEN "CantGetSetting" ELSE "UnknownSetting" >>
             ELSE errorLog = <<>>)
    /\ [][lastOp' \in GetterOps => UNCHANGED <<settingsTree, defaultsMap>>]_vars

\* GetBool of a setting that holds a number other than 0 and 1
C15_Witness ==
    /\ lastOp = "GetBool"
    /\ lastArg = "LAYER_THICKNESS"
    /\ "LAYER_THICKNESS" \in DOMAIN settingsTree
    /\ ParseInt(settingsTree["LAYER_THICKNESS"]).ok
    /\ result = <<FALSE>>
    /\ errorLog = <<"CantGetSetting">>

---------------------------------------------------------------------------
(* C13 *)

\* C13 (as claimed): destroying the motor attempts both disable commands,
\* the rotation axis's and the Z axis's, before the connection is closed,
\* whatever went before; and once the connection is closed no command is
\* written.
C13_TeardownDisablesBoth ==
    /\ lastOp = "~Motor" =>
           /\ ~i2cOpen
           /\ Len(written) = 2
           /\ Told(written[1]) = TellPlain("rotation", "MC_DISABLE")
           /\ Told(written[2]) = TellPlain("Z", "MC_DISABLE")
    /\ ~i2cOpen => (lastOp = "~Motor" \/ written = <<>>)

---------------------------------------------------------------------------
(* C16 *)

\* the numbers of the archive's images are 1, 2, ..., n for some n >= 1
NamedOneToN(slices) == \E n \in 1 .. MaxSlice + 1 : slices = 1 .. n

\* between two images of the archive a number is missing
HasNamingGap(slices) ==
    \E a \in slices, b \in slices : a < b /\ \E n \in a + 1 .. b - 1 : n \notin slices

\* C16: Validate returns true only for an archive with at least one slice
\* image whose images are numbered consecutively from 1; it returns false
\* for an archive without images, without slice 1, with a gap in the
\* numbering, or with a slice 0.
C16_ValidateConsecutiveFromOne ==
    lastOp = "Validate" =>
        /\ result = <<TRUE>> => (zipSlices # {} /\ NamedOneToN(zipSlices))
        /\ zipSlices = {} => result = <<FALSE>>
        /\ 1 \notin zipSlices => result = <<FALSE>>
        /\ HasNamingGap(zipSlices) => result = <<FALSE>>
        /\ 0 \in zipSlices => result = <<FALSE>>

\* slices 1 and 2, as in print.zip: valid
C16_Witness ==
    /\ lastOp = "Validate"
    /\ zipSlices = {1, 2}
    /\ result = <<TRUE>>

---------------------------------------------------------------------------
(* C17 *)

\* what GetLayerCount returns now: the images of the archive at the path
\* the object holds, none if the file is not there
LayerCountNow == IF zipDir \in fsFiles THEN LayerCount(zipSlices) ELSE 0

---------------------------------------------------------------------------
(* C18 *)

\* C18: at every point of a call of a method of Motor, the commands
\* written so far are the first commands of the list built for that call,
\* in the list's order: every write adds exactly the next command of the
\* list, so none is skipped, none is written twice and none comes from
\* elsewhere.
C18_PrefixAtEveryPoint ==
    /\ [](lastOp \in MotorMethods => (WrittenIsPrefix /\ Len(acks) = Len(written)))
    /\ [][ (written' # written /\ written' # <<>>) =>
              /\ Len(written) < Len(program)
              /\ program' = program
              /\ written' = Append(written, program[Len(written) + 1]) ]_vars

\* GoHome under way: three commands written, the call has not returned
C18_Witness ==
    /\ lastOp = "GoHome"
    /\ Sending
    /\ Len(written) = 3
    /\ \A i \in 1 .. 3 : written[i] = program[i]

---------------------------------------------------------------------------
(* C19 *)

\* C19: a method of Motor reads its settings when it is called, before
\* its first write, and keeps nothing from earlier calls: the list it
\* builds carries the values configured at the call.  From then on the
\* list is fixed: a setting changed while the list is being sent changes
\* neither the list nor what is written from it, so both Z moves of
\* GoToNextLayer rest on the one separating height read at the call.
C19_ReadOnceAtCall ==
    [][ /\ (~Sending /\ Sending') =>
              /\ written' = <<>>
              /\ Len(program') = Len(ToTransmit(lastOp'))
              /\ \A i \in 1 .. Len(program') :
                     i \notin LeftOpen(lastOp') => Told(program'[i]) = ToTransmit(lastOp')[i]
        /\ Sending => program' = program
        /\ (Sending /\ written' # written) =>
              written'[Len(written')] = program[Len(written')] ]_vars

\* GoToNextLayer called with thickness 25 and height 10; the height was
\* set to 30 while the list was being sent: the Z moves are 10 and 15
C19_Witness ==
    /\ lastOp = "GoToNextLayer"
    /\ Len(written) = 11
    /\ written[8].value = 10
    /\ written[10].value = 15
    /\ Configured("Z_SEPARATING_HEIGHT") = 30

---------------------------------------------------------------------------
(* C20 *)

\* the number of commands of each method's list
WriteBudget ==
    [op \in MotorMethods |->
        CASE op \in {"Reset", "Pause", "Resume", "ClearCommandQueue"} -> 1
          [] op \in {"EnableMotors", "DisableMotors"} -> 2
          [] op = "GoHome" -> 8
          [] op \in {"Initialize", "GoToNextLayer"} -> 11]

\* C20: a call of a method of Motor returns after at most as many writes
\* as its list has commands (1 for Reset, Pause, Resume, ClearCommandQueue;
\* 2 for EnableMotors, DisableMotors; 11 for Initialize; 8 for GoHome; 11
\* for GoToNextLayer), provided every write returns.  While the call has
\* not returned, the one thing it waits for is its next write: it has
\* returned once the last command is written, without waiting for the
\* controller's interrupt or for the motion.
C20_ReturnsWithinBudget ==
    /\ [](lastOp \in MotorMethods =>
             /\ Len(written) <= WriteBudget[lastOp]
             /\ Sending => (Len(written) < WriteBudget[lastOp] /\ ENABLED Send))
    /\ (Sending ~> ~Sending)

\* GoToNextLayer has returned true after its eleventh write
C20_Witness ==
    /\ lastOp = "GoToNextLayer"
    /\ Len(written) = 11
    /\ result = <<TRUE>>

---------------------------------------------------------------------------
(* Set, Restore and the names that are no settings *)

\* Save has run on the tree: the file holds the tree, or the file could not
\* be written and CantSaveSettings is reported
SavedOrReported(before, tree, after, errors) ==
    \/ errors = <<>> /\ after = WriteJson(tree)
    \/ errors = <<"CantSaveSettings">> /\ after \in {before, NotJson}

\* every name but key has in the second tree what it has in the first
OthersKept(before, after, key) ==
    /\ DOMAIN after = DOMAIN before \cup {key}
    /\ \A k \in DOMAIN before \ {key} : after[k] = before[k]

\* C21: Set and Restore with a name that is no setting leave the settings
\* in memory and the settings file as they were and report UnknownSetting
\* (Set) or NoDefaultSetting (Restore); Restore with the name of a setting
\* gives that setting its default, leaves the value of every other one as
\* it was, and saves.
C21_UnknownKeyChangesNothing ==
    [][/\ (lastOp' = "Set" /\ ~IsValidSettingName(defaultsMap, lastArg'))
           => /\ settingsTree' = settingsTree
              /\ settingsFile' = settingsFile
              /\ errorLog' = <<"UnknownSetting">>
       /\ (lastOp' = "Restore" /\ ~IsValidSettingName(defaultsMap, lastArg'))
           => /\ settingsTree' = settingsTree
              /\ settingsFile' = settingsFile
              /\ errorLog' = <<"NoDefaultSetting">>
       /\ (lastOp' = "Restore" /\ IsValidSettingName(defaultsMap, lastArg'))
           => /\ settingsTree'[lastArg'] = defaultsMap[lastArg']
              /\ OthersKept(settingsTree, settingsTree', lastArg')
              /\ SavedOrReported(settingsFile, settingsTree', settingsFile', errorLog')
      ]_vars

\* Restore of the burn-in layers has run and was saved while the layer
\* thickness holds a value that is not its default
C21_Witness ==
    /\ lastOp = "Restore"
    /\ lastArg = "BURN_IN_LAYERS"
    /\ settingsTree["BURN_IN_LAYERS"] = defaultsMap["BURN_IN_LAYERS"]
    /\ "LAYER_THICKNESS" \in DOMAIN settingsTree
    /\ settingsTree["LAYER_THICKNESS"] # defaultsMap["LAYER_THICKNESS"]
    /\ errorLog = <<>>
    /\ settingsFile = WriteJson(settingsTree)

---------------------------------------------------------------------------
(* RestoreAll *)

\* the settings in memory are the defaults: the same names, each with its
\* default
HoldsDefaults ==
    /\ DOMAIN settingsTree = DOMAIN defaultsMap
    /\ \A k \in DOMAIN defaultsMap : settingsTree[k] = defaultsMap[k]

---------------------------------------------------------------------------
(* LoadFromJSONString *)

\* the names of the members of a text that are names of settings
SettingNamesIn(text) ==
    {text.members[i][1] : i \in 1 .. Len(text.members)} \cap DOMAIN defaultsMap

\* the value of the last member of that name
LastValueIn(text, name) ==
    text.members[CHOOSE i \in 1 .. Len(text.members) :
                     /\ text.members[i][1] = name
                     /\ \A j \in i + 1 .. Len(text.members) : text.members[j][1] # name][2]

\* C23: LoadFromJSONString sets the members whose name is the name of a
\* setting and no others, then saves and returns true; given a text that
\* does not parse or has no Settings root it returns false, reports
\* CantReadSettingsString and leaves the settings in memory and the
\* settings file as they were.
C23_AppliesValidNamesOnly ==
    [][lastOp' = "LoadFromJSONString"
        => IF lastArg'.parses /\ lastArg'.hasRoot
           THEN /\ result' = <<TRUE>>
                /\ DOMAIN settingsTree' = DOMAIN settingsTree \cup SettingNamesIn(lastArg')
                /\ \A k \in DOMAIN settingsTree' :
                       settingsTree'[k] = IF k \in SettingNamesIn(lastArg')
                                          THEN LastValueIn(lastArg', k)
                                          ELSE settingsTree[k]
                /\ SavedOrReported(settingsFile, settingsTree', settingsFile', errorLog')
           ELSE /\ result' = <<FALSE>>
                /\ errorLog' = <<"CantReadSettingsString">>
                /\ settingsTree' = settingsTree
                /\ settingsFile' = settingsFile
      ]_vars

\* a text with a name that is no setting and a layer thickness has been
\* loaded: the thickness is set and saved, the other name is not there
C23_Witness ==
    /\ lastOp = "LoadFromJSONString"
    /\ lastArg = JsonText(<< <<"NOT_A_SETTING", <<"3", "0">>>>,
                             <<"LAYER_THICKNESS", <<"1", "0">>>> >>)
    /\ result = <<TRUE>>
    /\ errorLog = <<>>
    /\ "NOT_A_SETTING" \notin DOMAIN settingsTree
    /\ settingsTree["LAYER_THICKNESS"] = <<"1", "0">>
    /\ settingsFile = WriteJson(settingsTree)

---------------------------------------------------------------------------
(* Set, Save and Refresh.  sinceSet holds the name and the value of a Set  *)
(* of a setting, then the outcome of a Save that followed it at once, and  *)
(* is kept by Refresh; every other call empties it.                        *)

\* what GetString returns for the name
Get(key) == GetString(settingsTree, defaultsMap, key).retVal

\* what the settings file holds for the name: what GetString would return
\* from the tree read from the file, nothing from a file that cannot be read
FileValue(key) == GetString(ReadJson(settingsFile).tree, defaultsMap, key).retVal

\* C24 as stated: after Set(k, v) and Refresh, Get(k) returns what the file
\* holds; after Set(k, v), Save and Refresh it returns v.  Not so when the
\* file cannot be written or cannot be read.
C24_RefreshReturnsFileValue ==
    (lastOp = "Refresh" /\ sinceSet # <<>>)
        => IF Len(sinceSet) = 2
           THEN Get(sinceSet[1]) = FileValue(sinceSet[1])
           ELSE Get(sinceSet[1]) = sinceSet[2]

\* C24: Set changes the value in memory and leaves the settings file as it
\* is.  After Set(k, v) and a Refresh that could read the file, Get(k)
\* returns what the file holds for k, which is v when a Save between the
\* two wrote the file; after a Refresh that could not read the file,
\* CantLoadSettings is reported and Get(k) still returns v.
C24_SetIsNotPersisted ==
    /\ []((lastOp = "Refresh" /\ sinceSet # <<>>)
            => IF errorLog = <<>>
               THEN /\ Get(sinceSet[1]) = FileValue(sinceSet[1])
                    /\ (Len(sinceSet) = 3 /\ sinceSet[3] = "written")
                           => Get(sinceSet[1]) = sinceSet[2]
               ELSE /\ errorLog = <<"CantLoadSettings">>
                    /\ Get(sinceSet[1]) = sinceSet[2])
    /\ [][lastOp' = "Set" => settingsFile' = settingsFile]_vars

\* Set and then Refresh have run with no Save between them, and Get returns
\* the value the file holds, not the value that was set
C24_Witness ==
    /\ lastOp = "Refresh"
    /\ Len(sinceSet) = 2
    /\ errorLog = <<>>
    /\ Get(sinceSet[1]) # <<>>
    /\ Get(sinceSet[1]) # sinceSet[2]
    /\ Get(sinceSet[1]) = FileValue(sinceSet[1])

====
